---- MODULE Spec2Model ----
(***************************************************************************)
(* Lazy k-way merge of sorted, duplicate-free iterators (src/src/merge.rs). *)
(* MergeIterator emits the union; DetailedMergeIterator emits, per value,   *)
(* the (index, value) pairs of the sources that held it.  Both keep a       *)
(* binary heap of (index, value) entries, one per source still running.     *)
(* Source indices are 0-based as in the code; iters[i] of the code is       *)
(* its[i + 1] here, and heap position k of the code is h[k + 1] here.       *)
(***************************************************************************)
EXTENDS Integers, Sequences, FiniteSets, TLC

\* ------------------------------------------------------------------ bounds
\* Values of the generated sources are 1..MaxVal.
MaxVal == 3
\* The generated inputs hold 0..MaxSrc sources.
MaxSrc == 2
\* next() calls made after the engine has returned None that are counted.
MaxNone == 2
\* The unsorted inputs generated hold at most MaxElems elements in all.
MaxElems == 3
\* The generated inputs run with arbitrary tie-breaking hold at most
\* MaxTieElems elements in all.
MaxTieElems == 6

\* -------------------------------------------------------------- comparator
\* T::cmp, the natural order (merge_iters, merge_iters_detailed).
NaturalCmp(x, y) == IF x < y THEN "Less" ELSE IF x = y THEN "Equal" ELSE "Greater"

\* |x, y| y.cmp(x), the reversed order of the tests and the doc examples.
ReversedCmp(x, y) == NaturalCmp(y, x)

\* Mutant of Cmp: the closure passed is ignored and T::cmp used.
CmpIgnoresClosure(c, x, y) == NaturalCmp(x, y)

\* The engine's field cmp: c names the closure the caller passed.
Cmp(c, x, y) == IF c = "asc" THEN NaturalCmp(x, y) ELSE ReversedCmp(x, y)

\* Mutant of HeapCmp: cmp(x, y), which puts the greatest value on top.
HeapCmpUnreversed(c, a, b) == Cmp(c, a[2], b[2])

\* The heap's comparator, |(_, x), (_, y)| cmp(y, x): the index is not read.
HeapCmp(c, a, b) == Cmp(c, b[2], a[2])

\* --------------------------------------------------------------- iterators
\* The state of the borrowed slice iters: pos[i + 1] elements of source i
\* have been consumed and calls[i + 1] calls of its next() have been made.
IterHasNext(its, pos, i) == pos[i + 1] < Len(its[i + 1])

IterPeekItem(its, pos, i) == its[i + 1][pos[i + 1] + 1]

\* iters[i].next(): the position moves only when an element is returned.
IterAdvance(its, pos, i) ==
    IF IterHasNext(its, pos, i) THEN [pos EXCEPT ![i + 1] = @ + 1] ELSE pos

IterCalled(calls, i) == [calls EXCEPT ![i + 1] = @ + 1]

\* ------------------------------------------------------------ binary heap
\* data[k] and data[k] := e of the heap's vector, k counted from 0.
At(h, k) == h[k + 1]

Put(h, k, e) == [h EXCEPT ![k + 1] = e]

\* The loop of sift_down_range: elt is the hole's element, hole its place.
RECURSIVE SiftDownLoop(_, _, _, _, _, _)
SiftDownLoop(h, elt, hole, child, end, c) ==
    IF child < end
    THEN LET right == child + 1
             ch == IF right < end /\ HeapCmp(c, At(h, child), At(h, right)) # "Greater"
                   THEN right ELSE child
         IN  IF HeapCmp(c, elt, At(h, ch)) # "Less"
             THEN Put(h, hole, elt)
             ELSE SiftDownLoop(Put(h, hole, At(h, ch)), elt, ch, 2 * ch + 1, end, c)
    ELSE Put(h, hole, elt)

\* sift_down(pos) = sift_down_range(pos, len).
SiftDown(h, pos, c) ==
    IF Len(h) = 0 THEN h ELSE SiftDownLoop(h, At(h, pos), pos, 2 * pos + 1, Len(h), c)

\* The loop of sift_up(start, pos).
RECURSIVE SiftUpLoop(_, _, _, _, _)
SiftUpLoop(h, elt, hole, start, c) ==
    IF hole > start
    THEN LET parent == (hole - 1) \div 2
         IN  IF HeapCmp(c, elt, At(h, parent)) # "Greater"
             THEN Put(h, hole, elt)
             ELSE SiftUpLoop(Put(h, hole, At(h, parent)), elt, parent, start, c)
    ELSE Put(h, hole, elt)

\* The loop of sift_down_to_bottom: the hole goes down to a leaf, then sift_up.
RECURSIVE SiftDownToBottomLoop(_, _, _, _, _, _)
SiftDownToBottomLoop(h, elt, hole, child, end, c) ==
    IF child < end
    THEN LET right == child + 1
             ch == IF right < end /\ HeapCmp(c, At(h, child), At(h, right)) # "Greater"
                   THEN right ELSE child
         IN  SiftDownToBottomLoop(Put(h, hole, At(h, ch)), elt, ch, 2 * ch + 1, end, c)
    ELSE SiftUpLoop(h, elt, hole, 0, c)

\* The loop of rebuild: sift_down(n) for n = len / 2 - 1 down to 0.
RECURSIVE RebuildLoop(_, _, _)
RebuildLoop(h, n, c) ==
    IF n > 0 THEN RebuildLoop(SiftDown(h, n - 1, c), n - 1, c) ELSE h

\* BinaryHeap::from_vec_cmp(vec, cmp): heapify the vector.
from_vec_cmp(vec, c) == RebuildLoop(vec, Len(vec) \div 2, c)

\* The vector left by the heap's pop(): the last element replaces the top
\* and is sifted to the bottom and back up.  The popped item is At(h, 0).
HeapPop(h, c) ==
    LET n    == Len(h)
        item == At(h, n - 1)
        rest == SubSeq(h, 1, n - 1)
    IN  IF n = 1 THEN <<>>
        ELSE SiftDownToBottomLoop(rest, item, 0, 1, n - 1, c)

\* Dropping a PeekMut: the top is sifted down to its place.
PeekMutDrop(h, c) == SiftDown(h, 0, c)

\* ----------------------------------------------------------------- engines
\* The fields an engine changes: its heap, and the borrowed iterators' state.
Engine(h, pos, calls) == [heap |-> h, pos |-> pos, calls |-> calls]

\* Mutant of ConstructLoop: the loop ends at the first source that yields
\* nothing.
RECURSIVE ConstructLoopStopsAtEmpty(_, _, _)
ConstructLoopStopsAtEmpty(its, i, e) ==
    IF i < Len(its) /\ IterHasNext(its, e.pos, i)
    THEN ConstructLoopStopsAtEmpty(its, i + 1,
             Engine(Append(e.heap, <<i, IterPeekItem(its, e.pos, i)>>),
                    IterAdvance(its, e.pos, i),
                    IterCalled(e.calls, i)))
    ELSE IF i < Len(its)
         THEN Engine(e.heap, e.pos, IterCalled(e.calls, i))
         ELSE e

\* Mutant of ConstructLoop: the sources are visited from the last to the
\* first.
RECURSIVE ConstructLoopReversed(_, _, _)
ConstructLoopReversed(its, i, e) ==
    IF i < Len(its)
    THEN LET j == Len(its) - 1 - i
         IN  ConstructLoopReversed(its, i + 1,
                 Engine(IF IterHasNext(its, e.pos, j)
                        THEN Append(e.heap, <<j, IterPeekItem(its, e.pos, j)>>)
                        ELSE e.heap,
                        IterAdvance(its, e.pos, j),
                        IterCalled(e.calls, j)))
    ELSE e

\* Mutant of ConstructLoop: the index pushed counts the sources from 1.
RECURSIVE ConstructLoopOneBased(_, _, _)
ConstructLoopOneBased(its, i, e) ==
    IF i < Len(its)
    THEN ConstructLoopOneBased(its, i + 1,
             Engine(IF IterHasNext(its, e.pos, i)
                    THEN Append(e.heap, <<i + 1, IterPeekItem(its, e.pos, i)>>)
                    ELSE e.heap,
                    IterAdvance(its, e.pos, i),
                    IterCalled(e.calls, i)))
    ELSE e

\* The loop of the constructors: iter.next() on every source in index order,
\* pushing (i, x) for each source that yields a value.
RECURSIVE ConstructLoop(_, _, _)
ConstructLoop(its, i, e) ==
    IF i < Len(its)
    THEN ConstructLoop(its, i + 1,
             Engine(IF IterHasNext(its, e.pos, i)
                    THEN Append(e.heap, <<i, IterPeekItem(its, e.pos, i)>>)
                    ELSE e.heap,
                    IterAdvance(its, e.pos, i),
                    IterCalled(e.calls, i)))
    ELSE e

\* merge_iters_by(iters, cmp); pos and calls are the iterators' state before.
merge_iters_by(its, pos, calls, c) ==
    LET e == ConstructLoop(its, 0, Engine(<<>>, pos, calls))
    IN  Engine(from_vec_cmp(e.heap, c), e.pos, e.calls)

\* merge_iters_detailed_by(iters, cmp): the same construction.
merge_iters_detailed_by(its, pos, calls, c) ==
    LET e == ConstructLoop(its, 0, Engine(<<>>, pos, calls))
    IN  Engine(from_vec_cmp(e.heap, c), e.pos, e.calls)

\* Mutant of SwapOrPop: the entry is popped whether or not its source
\* yields another value.
SwapOrPopAlwaysPops(e, its, c) ==
    Engine(HeapPop(e.heap, c), e.pos, IterCalled(e.calls, At(e.heap, 0)[1]))

\* Mutant of SwapOrPop: the entry of a source that yields nothing is left
\* on the heap.
SwapOrPopNeverPops(e, its, c) ==
    LET i == At(e.heap, 0)[1]
    IN  IF IterHasNext(its, e.pos, i)
        THEN Engine(PeekMutDrop(Put(e.heap, 0, <<i, IterPeekItem(its, e.pos, i)>>), c),
                    IterAdvance(its, e.pos, i),
                    IterCalled(e.calls, i))
        ELSE Engine(e.heap, e.pos, IterCalled(e.calls, i))

\* On the heap's top entry: iters[entry.0].next(); a value is swapped into
\* the entry (and the PeekMut dropped), otherwise the entry is popped.
SwapOrPop(e, its, c) ==
    LET i == At(e.heap, 0)[1]
    IN  IF IterHasNext(its, e.pos, i)
        THEN Engine(PeekMutDrop(Put(e.heap, 0, <<i, IterPeekItem(its, e.pos, i)>>), c),
                    IterAdvance(its, e.pos, i),
                    IterCalled(e.calls, i))
        ELSE Engine(HeapPop(e.heap, c), e.pos, IterCalled(e.calls, i))

\* Mutant of IsTie: no entry is taken to tie with res.
IsTieNever(c, res, v) == FALSE

\* (self.cmp)(&res, &peek.1) == Ordering::Equal
IsTie(c, res, v) == Cmp(c, res, v) = "Equal"

\* The number of elements of all the sources.
RECURSIVE TotalLen(_)
TotalLen(its) == IF its = <<>> THEN 0 ELSE Len(Head(its)) + TotalLen(Tail(its))

\* Iterations after which a while loop of next() is taken not to end.  An
\* iteration consumes a source element or pops a heap entry, so no loop of
\* the code over the sources its runs this long.
TieLoopCap(its) == TotalLen(its) + Len(its) + 1

\* Mutant of MergeTieLoop: an if in place of the while, one tied entry at
\* most is advanced or popped.
MergeTieLoopOnce(e, res, its, c, fuel) ==
    IF Len(e.heap) > 0
    THEN IF IsTie(c, res, At(e.heap, 0)[2])
         THEN [eng |-> SwapOrPop(e, its, c), ended |-> TRUE]
         ELSE [eng |-> Engine(PeekMutDrop(e.heap, c), e.pos, e.calls), ended |-> TRUE]
    ELSE [eng |-> e, ended |-> TRUE]

\* MergeIterator::next, the while loop: tied entries are advanced or popped,
\* their values dropped.  fuel is the number of iterations left before the
\* loop is reported as not ending (ended = FALSE).
RECURSIVE MergeTieLoop(_, _, _, _, _)
MergeTieLoop(e, res, its, c, fuel) ==
    IF Len(e.heap) > 0
    THEN IF IsTie(c, res, At(e.heap, 0)[2])
         THEN IF fuel = 0
              THEN [eng |-> e, ended |-> FALSE]
              ELSE MergeTieLoop(SwapOrPop(e, its, c), res, its, c, fuel - 1)
         ELSE [eng |-> Engine(PeekMutDrop(e.heap, c), e.pos, e.calls), ended |-> TRUE]
    ELSE [eng |-> e, ended |-> TRUE]

\* Mutant of MergeIterator_next: on an empty heap the sources are polled
\* again to refill it.
MergeNextRefillsWhenEmpty(e, its, c) ==
    IF Len(e.heap) # 0
    THEN LET res == At(e.heap, 0)[2]
             r   == MergeTieLoop(SwapOrPop(e, its, c), res, its, c, TieLoopCap(its))
         IN  [eng |-> r.eng, ret |-> <<res>>, returned |-> r.ended]
    ELSE [eng |-> merge_iters_by(its, e.pos, e.calls, c), ret |-> <<>>, returned |-> TRUE]

\* MergeIterator::next: the engine after the call and what it returns,
\* <<>> for None and <<x>> for Some(x); returned = FALSE when the call's
\* loop does not end.
MergeIterator_next(e, its, c) ==
    IF Len(e.heap) # 0
    THEN LET res == At(e.heap, 0)[2]
             r   == MergeTieLoop(SwapOrPop(e, its, c), res, its, c, TieLoopCap(its))
         IN  [eng |-> r.eng, ret |-> <<res>>, returned |-> r.ended]
    ELSE [eng |-> e, ret |-> <<>>, returned |-> TRUE]

\* Mutant of DetailedTieLoop: the pair pushed carries the entry's value
\* after the swap, the newly pulled one.
RECURSIVE DetailedTieLoopNewValue(_, _, _, _, _, _)
DetailedTieLoopNewValue(e, details, res, its, c, fuel) ==
    IF Len(e.heap) > 0
    THEN IF IsTie(c, res, At(e.heap, 0)[2])
         THEN IF fuel = 0
              THEN [eng |-> e, details |-> details, ended |-> FALSE]
              ELSE LET i == At(e.heap, 0)[1]
                       x == IF IterHasNext(its, e.pos, i)
                            THEN IterPeekItem(its, e.pos, i)
                            ELSE At(e.heap, 0)[2]
                   IN  DetailedTieLoopNewValue(SwapOrPop(e, its, c),
                                               Append(details, <<i, x>>),
                                               res, its, c, fuel - 1)
         ELSE [eng |-> Engine(PeekMutDrop(e.heap, c), e.pos, e.calls),
               details |-> details, ended |-> TRUE]
    ELSE [eng |-> e, details |-> details, ended |-> TRUE]

\* DetailedMergeIterator::next, the while loop: each tied entry's
\* (index, displaced value) is pushed onto details.
RECURSIVE DetailedTieLoop(_, _, _, _, _, _)
DetailedTieLoop(e, details, res, its, c, fuel) ==
    IF Len(e.heap) > 0
    THEN IF IsTie(c, res, At(e.heap, 0)[2])
         THEN IF fuel = 0
              THEN [eng |-> e, details |-> details, ended |-> FALSE]
              ELSE DetailedTieLoop(SwapOrPop(e, its, c), Append(details, At(e.heap, 0)),
                                   res, its, c, fuel - 1)
         ELSE [eng |-> Engine(PeekMutDrop(e.heap, c), e.pos, e.calls),
               details |-> details, ended |-> TRUE]
    ELSE [eng |-> e, details |-> details, ended |-> TRUE]

\* Mutant of DetailedMergeIterator_next: (i, res) is never pushed.
DetailedNextDropsSelected(e, its, c) ==
    IF Len(e.heap) # 0
    THEN LET top == At(e.heap, 0)
             r   == DetailedTieLoop(SwapOrPop(e, its, c), <<>>, top[2], its, c,
                                    TieLoopCap(its))
         IN  [eng |-> r.eng, ret |-> <<r.details>>, returned |-> r.ended]
    ELSE [eng |-> e, ret |-> <<>>, returned |-> TRUE]

\* Mutant of DetailedMergeIterator_next: (i, res) is pushed first.
DetailedNextSelectedFirst(e, its, c) ==
    IF Len(e.heap) # 0
    THEN LET top == At(e.heap, 0)
             r   == DetailedTieLoop(SwapOrPop(e, its, c), <<top>>, top[2], its, c,
                                    TieLoopCap(its))
         IN  [eng |-> r.eng, ret |-> <<r.details>>, returned |-> r.ended]
    ELSE [eng |-> e, ret |-> <<>>, returned |-> TRUE]

\* DetailedMergeIterator::next: (i, res) is pushed last.
DetailedMergeIterator_next(e, its, c) ==
    IF Len(e.heap) # 0
    THEN LET top == At(e.heap, 0)
             r   == DetailedTieLoop(SwapOrPop(e, its, c), <<>>, top[2], its, c,
                                    TieLoopCap(its))
         IN  [eng |-> r.eng, ret |-> <<Append(r.details, top)>>, returned |-> r.ended]
    ELSE [eng |-> e, ret |-> <<>>, returned |-> TRUE]

\* --------------------------------------------------------- whole-run results
\* Fresh iterators over its: nothing consumed, next() never called.
Fresh(its) == [i \in 1..Len(its) |-> 0]

\* merge_iters_by(its, c).collect().
RECURSIVE CollectMerge(_, _, _)
CollectMerge(e, its, c) ==
    LET r == MergeIterator_next(e, its, c)
    IN  IF r.ret = <<>> \/ ~r.returned THEN <<>>
        ELSE r.ret \o CollectMerge(r.eng, its, c)

RunMerge(its, c) == CollectMerge(merge_iters_by(its, Fresh(its), Fresh(its), c), its, c)

\* merge_iters_detailed_by(its, c).collect().
RECURSIVE CollectDetailed(_, _, _)
CollectDetailed(e, its, c) ==
    LET r == DetailedMergeIterator_next(e, its, c)
    IN  IF r.ret = <<>> \/ ~r.returned THEN <<>>
        ELSE r.ret \o CollectDetailed(r.eng, its, c)

RunDetailed(its, c) ==
    CollectDetailed(merge_iters_detailed_by(its, Fresh(its), Fresh(its), c), its, c)

\* ------------------------------------------------------------------ inputs
\* The elements of the finite set S in the order of comparator c.
RECURSIVE SortedSeqOf(_, _)
SortedSeqOf(S, c) ==
    IF S = {} THEN <<>>
    ELSE LET m == CHOOSE x \in S : \A y \in S : Cmp(c, x, y) # "Greater"
         IN  <<m>> \o SortedSeqOf(S \ {m}, c)

\* The sorted, duplicate-free sources over 1..MaxVal under comparator c.
SortedSources(c) == {SortedSeqOf(S, c) : S \in SUBSET (1..MaxVal)}

\* m..n as a source: the range m..=n, reversed under "desc" (.rev()).
RangeIter(m, n, c) == SortedSeqOf(m..n, c)

\* The inputs of the tests and doc examples (test_merge, test_merge_by,
\* test_merge_detailed, test_merge_detailed_by).
TestIters(c) ==
    {<<RangeIter(1, 5, c), RangeIter(3, 7, c), RangeIter(2, 4, c)>>,
     <<RangeIter(1, 2, c), RangeIter(2, 3, c)>>}

\* The inputs explored: a comparator and 0..MaxSrc sources sorted under it.
Inputs ==
    {<<c, its>> : c \in {"asc"}, its \in
        (UNION {[1..n -> SortedSources("asc")] : n \in 0..MaxSrc}) \cup TestIters("asc")}
    \cup
    {<<c, its>> : c \in {"desc"}, its \in
        (UNION {[1..n -> SortedSources("desc")] : n \in 0..MaxSrc}) \cup TestIters("desc")}

\* ----------------------------------------------------------- state machine
VARIABLES
    iters,   \* the caller's sources, a sequence of sequences
    cmp,     \* the comparator passed: "asc" (T::cmp) or "desc" (|x, y| y.cmp(x))
    engine,  \* "new" before construction, then "merge" or "detailed"
    heap,    \* the engine's heap vector of <<index, value>> entries
    pos,     \* per source, the number of elements consumed from it
    calls,   \* per source, the number of calls of its next()
    out,     \* the values MergeIterator::next has returned, in order
    groups,  \* the groups DetailedMergeIterator::next has returned, in order
    ret,     \* what the last next() returned: <<>> for None, <<x>> for Some(x)
    nones,   \* the number of next() calls that returned None (up to MaxNone)
    hung     \* a next() call is in a loop that does not end

vars == <<iters, cmp, engine, heap, pos, calls, out, groups, ret, nones, hung>>

Init ==
    /\ \E inp \in Inputs : cmp = inp[1] /\ iters = inp[2]
    /\ engine = "new"
    /\ heap = <<>>
    /\ pos = Fresh(iters)
    /\ calls = Fresh(iters)
    /\ out = <<>>
    /\ groups = <<>>
    /\ ret = <<>>
    /\ nones = 0
    /\ hung = FALSE

\* let it = merge_iters_by(&mut iters, cmp)
ConstructMerge ==
    /\ engine = "new"
    /\ LET e == merge_iters_by(iters, pos, calls, cmp)
       IN  heap' = e.heap /\ pos' = e.pos /\ calls' = e.calls
    /\ engine' = "merge"
    /\ UNCHANGED <<iters, cmp, out, groups, ret, nones, hung>>

\* let it = merge_iters_detailed_by(&mut iters, cmp)
ConstructDetailed ==
    /\ engine = "new"
    /\ LET e == merge_iters_detailed_by(iters, pos, calls, cmp)
       IN  heap' = e.heap /\ pos' = e.pos /\ calls' = e.calls
    /\ engine' = "detailed"
    /\ UNCHANGED <<iters, cmp, out, groups, ret, nones, hung>>

\* it.next() on a MergeIterator
MergeNext ==
    /\ engine = "merge"
    /\ nones < MaxNone
    /\ ~hung
    /\ LET r == MergeIterator_next(Engine(heap, pos, calls), iters, cmp)
       IN  /\ heap' = r.eng.heap /\ pos' = r.eng.pos /\ calls' = r.eng.calls
           /\ hung' = ~r.returned
           /\ ret' = IF r.returned THEN r.ret ELSE ret
           /\ out' = IF r.returned THEN out \o r.ret ELSE out
           /\ nones' = IF r.ret = <<>> THEN nones + 1 ELSE nones
    /\ UNCHANGED <<iters, cmp, engine, groups>>

\* it.next() on a DetailedMergeIterator
DetailedNext ==
    /\ engine = "detailed"
    /\ nones < MaxNone
    /\ ~hung
    /\ LET r == DetailedMergeIterator_next(Engine(heap, pos, calls), iters, cmp)
       IN  /\ heap' = r.eng.heap /\ pos' = r.eng.pos /\ calls' = r.eng.calls
           /\ hung' = ~r.returned
           /\ ret' = IF r.returned THEN r.ret ELSE ret
           /\ groups' = IF r.returned THEN groups \o r.ret ELSE groups
           /\ nones' = IF r.ret = <<>> THEN nones + 1 ELSE nones
    /\ UNCHANGED <<iters, cmp, engine, out>>

Next == ConstructMerge \/ ConstructDetailed \/ MergeNext \/ DetailedNext

Spec == Init /\ [][Next]_vars

\* No step is left: the engine is built, and a call does not return or
\* MaxNone calls have returned None.
Stopped == engine # "new" /\ (hung \/ nones >= MaxNone)

\* ENABLED <<Next>>_vars, written out: a constructor can run while
\* engine = "new", and a next() call, which appends to out or groups or
\* raises nones or sets hung, while nones < MaxNone and no call hangs.
EnabledNextIsNotStopped == (ENABLED <<Next>>_vars) <=> ~Stopped

\* The caller keeps calling next(): every step that can be taken is taken.
\* This is WF_vars(Next), []<>~ENABLED <<Next>>_vars \/ []<><<Next>>_vars,
\* with the enabling condition written out as ~Stopped.
FairSpec == Spec /\ ([]<>Stopped \/ []<><<Next>>_vars)

\* The sequences over 1..MaxVal of at most n elements, in any order and with
\* repetitions.
AnySource(n) == UNION {[1..k -> 1..MaxVal] : k \in 0..n}

\* The tuples of n sources that hold at most budget elements in all.
RECURSIVE AnySources(_, _)
AnySources(n, budget) ==
    IF n = 0 THEN {<<>>}
    ELSE UNION {{<<s>> \o t : t \in AnySources(n - 1, budget - Len(s))} :
                s \in AnySource(budget)}

\* Inputs that need not meet the documented precondition: a comparator and
\* 0..MaxSrc sources of any content, besides the sorted inputs.
AnyInputs ==
    Inputs \cup
    {<<c, its>> : c \in {"asc", "desc"},
                  its \in UNION {AnySources(n, MaxElems) : n \in 0..MaxSrc}}

\* The sources before an engine is constructed, sorted or not.
InitAny ==
    /\ \E inp \in AnyInputs : cmp = inp[1] /\ iters = inp[2]
    /\ engine = "new"
    /\ heap = <<>>
    /\ pos = Fresh(iters)
    /\ calls = Fresh(iters)
    /\ out = <<>>
    /\ groups = <<>>
    /\ ret = <<>>
    /\ nones = 0
    /\ hung = FALSE

\* The engines over any sources.
SpecAny == InitAny /\ [][Next]_vars

\* SpecAny with a caller that keeps calling next() (see FairSpec).
FairSpecAny == SpecAny /\ ([]<>Stopped \/ []<><<Next>>_vars)

\* ------------------------------------------------- arbitrary tie-breaking
\* The heap comparator looks at the values only, so which of several entries
\* of the least value is at the top is the heap's own business.  The code is
\* run here on a heap that may expose, at each peek_mut, any of them.

\* Mutant of Exposed: any entry may be at the top, of the least value or not.
ExposedAnyEntry(h, c) ==
    {Put(Put(h, 0, At(h, k)), k, At(h, 0)) : k \in 0..(Len(h) - 1)}

\* The heaps that peek_mut may find: h with its top entry exchanged with an
\* entry of equal value (h itself among them), which is a heap as h is.
Exposed(h, c) ==
    {Put(Put(h, 0, At(h, k)), k, At(h, 0)) :
        k \in {j \in 0..(Len(h) - 1) : Cmp(c, At(h, j)[2], At(h, 0)[2]) = "Equal"}}

\* MergeIterator::next, the while loop, on such a heap: the outcomes.
RECURSIVE MergeTieLoopAny(_, _, _, _, _)
MergeTieLoopAny(e, res, its, c, fuel) ==
    IF Len(e.heap) > 0
    THEN UNION {
           IF IsTie(c, res, At(h, 0)[2])
           THEN IF fuel = 0
                THEN {[eng |-> e, ended |-> FALSE]}
                ELSE MergeTieLoopAny(SwapOrPop(Engine(h, e.pos, e.calls), its, c),
                                     res, its, c, fuel - 1)
           ELSE {[eng |-> Engine(PeekMutDrop(h, c), e.pos, e.calls), ended |-> TRUE]}
           : h \in Exposed(e.heap, c)}
    ELSE {[eng |-> e, ended |-> TRUE]}

\* MergeIterator::next on such a heap: the outcomes.
MergeNextAny(e, its, c) ==
    IF Len(e.heap) # 0
    THEN UNION {
           {[eng |-> r.eng, ret |-> <<At(h, 0)[2]>>, returned |-> r.ended] :
               r \in MergeTieLoopAny(SwapOrPop(Engine(h, e.pos, e.calls), its, c),
                                     At(h, 0)[2], its, c, TieLoopCap(its))}
           : h \in Exposed(e.heap, c)}
    ELSE {[eng |-> e, ret |-> <<>>, returned |-> TRUE]}

\* DetailedMergeIterator::next, the while loop, on such a heap: the outcomes.
RECURSIVE DetailedTieLoopAny(_, _, _, _, _, _)
DetailedTieLoopAny(e, details, res, its, c, fuel) ==
    IF Len(e.heap) > 0
    THEN UNION {
           IF IsTie(c, res, At(h, 0)[2])
           THEN IF fuel = 0
                THEN {[eng |-> e, details |-> details, ended |-> FALSE]}
                ELSE DetailedTieLoopAny(SwapOrPop(Engine(h, e.pos, e.calls), its, c),
                                        Append(details, At(h, 0)),
                                        res, its, c, fuel - 1)
           ELSE {[eng |-> Engine(PeekMutDrop(h, c), e.pos, e.calls),
                  details |-> details, ended |-> TRUE]}
           : h \in Exposed(e.heap, c)}
    ELSE {[eng |-> e, details |-> details, ended |-> TRUE]}

\* DetailedMergeIterator::next on such a heap: the outcomes.
DetailedNextAny(e, its, c) ==
    IF Len(e.heap) # 0
    THEN UNION {
           {[eng |-> r.eng, ret |-> <<Append(r.details, At(h, 0))>>, returned |-> r.ended] :
               r \in DetailedTieLoopAny(SwapOrPop(Engine(h, e.pos, e.calls), its, c),
                                        <<>>, At(h, 0)[2], its, c, TieLoopCap(its))}
           : h \in Exposed(e.heap, c)}
    ELSE {[eng |-> e, ret |-> <<>>, returned |-> TRUE]}

\* it.next() on a MergeIterator whose heap breaks ties as it likes
MergeNextTie ==
    /\ engine = "merge"
    /\ nones < MaxNone
    /\ ~hung
    /\ \E r \in MergeNextAny(Engine(heap, pos, calls), iters, cmp) :
           /\ heap' = r.eng.heap /\ pos' = r.eng.pos /\ calls' = r.eng.calls
           /\ hung' = ~r.returned
           /\ ret' = IF r.returned THEN r.ret ELSE ret
           /\ out' = IF r.returned THEN out \o r.ret ELSE out
           /\ nones' = IF r.ret = <<>> THEN nones + 1 ELSE nones
    /\ UNCHANGED <<iters, cmp, engine, groups>>

\* it.next() on a DetailedMergeIterator whose heap breaks ties as it likes
DetailedNextTie ==
    /\ engine = "detailed"
    /\ nones < MaxNone
    /\ ~hung
    /\ \E r \in DetailedNextAny(Engine(heap, pos, calls), iters, cmp) :
           /\ heap' = r.eng.heap /\ pos' = r.eng.pos /\ calls' = r.eng.calls
           /\ hung' = ~r.returned
           /\ ret' = IF r.returned THEN r.ret ELSE ret
           /\ groups' = IF r.returned THEN groups \o r.ret ELSE groups
           /\ nones' = IF r.ret = <<>> THEN nones + 1 ELSE nones
    /\ UNCHANGED <<iters, cmp, engine, out>>

NextTie == ConstructMerge \/ ConstructDetailed \/ MergeNextTie \/ DetailedNextTie

\* The sorted inputs of at most MaxTieElems elements, and those of the tests.
TieInputs ==
    {inp \in Inputs : TotalLen(inp[2]) <= MaxTieElems \/ inp[2] \in TestIters(inp[1])}

InitTie ==
    /\ \E inp \in TieInputs : cmp = inp[1] /\ iters = inp[2]
    /\ engine = "new"
    /\ heap = <<>>
    /\ pos = Fresh(iters)
    /\ calls = Fresh(iters)
    /\ out = <<>>
    /\ groups = <<>>
    /\ ret = <<>>
    /\ nones = 0
    /\ hung = FALSE

\* The engines over sorted, duplicate-free sources, ties broken arbitrarily.
SpecTie == InitTie /\ [][NextTie]_vars

\* ------------------------------------------------------------ vocabulary
Range(s) == {s[k] : k \in 1..Len(s)}

Reverse(s) == [k \in 1..Len(s) |-> s[Len(s) + 1 - k]]

\* Every source is sorted and duplicate-free under the comparator.
StrictlySorted(s, c) == \A k \in 1..(Len(s) - 1) : Cmp(c, s[k], s[k + 1]) = "Less"

Precondition == \A i \in 1..Len(iters) : StrictlySorted(iters[i], cmp)

\* The values held by any source.
AllValues == UNION {Range(iters[i]) : i \in 1..Len(iters)}

\* The 0-based indices of the sources that hold v.
Holders(v) == {i - 1 : i \in {j \in 1..Len(iters) : v \in Range(iters[j])}}

\* A next() call has returned None.
Completed == engine # "new" /\ nones > 0

\* The value of a group: that of its last pair, the selected source's.
GroupValue(g) == g[Len(g)][2]

\* The values emitted so far by whichever engine runs.
Emitted ==
    IF engine = "detailed" THEN [k \in 1..Len(groups) |-> GroupValue(groups[k])] ELSE out

\* The inputs of tests::test_merge and tests::test_merge_by.
IsTestMerge(c) ==
    cmp = c /\ iters = <<RangeIter(1, 5, c), RangeIter(3, 7, c), RangeIter(2, 4, c)>>

\* The inputs of tests::test_merge_detailed and tests::test_merge_detailed_by.
IsTestDetailed(c) == cmp = c /\ iters = <<RangeIter(1, 2, c), RangeIter(2, 3, c)>>

\* ------------------------------------------------------------------ claims
\* C1: Union correctness.  For sorted, duplicate-free sources, the values
\* MergeIterator::next returns until it returns None are the sorted,
\* duplicate-free union of the source values; on the sources 1..=5, 3..=7,
\* 2..=4 in natural order the output is 1, 2, 3, 4, 5, 6, 7.
C1_UnionCorrect ==
    (Precondition /\ engine = "merge" /\ Completed) =>
        /\ out = SortedSeqOf(AllValues, cmp)
        /\ IsTestMerge("asc") => out = <<1, 2, 3, 4, 5, 6, 7>>

C1_Witness ==
    /\ engine = "merge" /\ Completed /\ IsTestMerge("asc")
    /\ out = <<1, 2, 3, 4, 5, 6, 7>>

\* C2: Sorted, collapsed emission at every step.  In every state of a run
\* of either engine, finished or not, each emitted value is strictly greater
\* under the comparator than the one emitted before it, so no value is
\* emitted twice even when several sources hold it.
C2_StrictlyIncreasing == Precondition => StrictlySorted(Emitted, cmp)

\* A run in progress that has emitted a value held by several sources.
C2_Witness ==
    /\ engine = "detailed" /\ nones = 0 /\ heap # <<>>
    /\ Len(Emitted) >= 2
    /\ \E k \in 1..Len(Emitted) : Cardinality(Holders(Emitted[k])) >= 2

\* C3: Group completeness.  Every group emitted by
\* DetailedMergeIterator::next for value v holds exactly one (index, value)
\* pair for each source that contains v and no other pair: it is non-empty,
\* its values are all v and its indices are distinct source indices.
C3_GroupComplete ==
    (Precondition /\ engine = "detailed") =>
        \A k \in 1..Len(groups) :
            LET g == groups[k]
                v == GroupValue(g)
            IN  /\ Len(g) >= 1
                /\ Range(g) = {<<i, v>> : i \in Holders(v)}
                /\ Len(g) = Cardinality(Holders(v))

\* A group of three sources has been emitted.
C3_Witness ==
    /\ engine = "detailed"
    /\ \E k \in 1..Len(groups) : Len(groups[k]) = 3

\* The values of the pairs of source index i in the groups gs, in order.
RECURSIVE FlattenGroups(_)
FlattenGroups(gs) == IF gs = <<>> THEN <<>> ELSE Head(gs) \o FlattenGroups(Tail(gs))

RECURSIVE ValuesOfIndex(_, _)
ValuesOfIndex(pairs, i) ==
    IF pairs = <<>> THEN <<>>
    ELSE (IF Head(pairs)[1] = i THEN <<Head(pairs)[2]>> ELSE <<>>)
         \o ValuesOfIndex(Tail(pairs), i)

\* C4: Conservation in detailed mode.  After the detailed engine has been
\* consumed to completion, the pairs of source index i in the concatenation
\* of all emitted groups carry exactly source i's sequence, in its order.
C4_Conservation ==
    (Precondition /\ engine = "detailed" /\ Completed) =>
        \A i \in 1..Len(iters) :
            ValuesOfIndex(FlattenGroups(groups), i - 1) = iters[i]

\* A completed detailed run over sources that share values.
C4_Witness ==
    /\ engine = "detailed" /\ Completed
    /\ Len(iters) >= 2
    /\ \E k \in 1..Len(groups) : Len(groups[k]) >= 2
    /\ \E k \in 1..Len(groups) : Len(groups[k]) = 1

\* The n entries taken off the top of engine e's heap one after the other,
\* each by advancing its source or popping it.
RECURSIVE TakenOff(_, _)
TakenOff(e, n) ==
    IF n = 0 THEN <<>>
    ELSE <<At(e.heap, 0)>> \o TakenOff(SwapOrPop(e, iters, cmp), n - 1)

\* C5: Group member order.  In every group the detailed engine emits, the
\* entry that was the heap's top when the call started is the last pair and
\* the other pairs, entries taken off the heap during the call, precede it;
\* sources [1,2], [2,3] ascending give [(0,1)], [(1,2),(0,2)], [(1,3)], and
\* [2,1], [3,2] with the reversed comparator give [(1,3)], [(0,2),(1,2)],
\* [(0,1)].
C5_GroupOrder ==
    [][(Precondition /\ engine = "detailed") =>
        /\ groups' # groups =>
              LET g == groups'[Len(groups')]
              IN  /\ groups' = Append(groups, g)
                  /\ g[Len(g)] = At(heap, 0)
                  /\ \A j \in 1..(Len(g) - 1) :
                        g[j] \in Range(heap) /\ g[j] # At(heap, 0)
                  /\ SubSeq(g, 1, Len(g) - 1) =
                        TakenOff(SwapOrPop(Engine(heap, pos, calls), iters, cmp),
                                 Len(g) - 1)
        /\ (Completed' /\ IsTestDetailed("asc")) =>
              groups' = << <<<<0, 1>>>>, <<<<1, 2>>, <<0, 2>>>>, <<<<1, 3>>>> >>
        /\ (Completed' /\ IsTestDetailed("desc")) =>
              groups' = << <<<<1, 3>>>>, <<<<0, 2>>, <<1, 2>>>>, <<<<0, 1>>>> >>
    ]_vars

C5_Witness ==
    /\ engine = "detailed" /\ Completed /\ IsTestDetailed("desc")
    /\ groups = << <<<<1, 3>>>>, <<<<0, 2>>, <<1, 2>>>>, <<<<0, 1>>>> >>

\* Source i's pulled elements have all been emitted (for the detailed
\* engine: as a pair carrying the source's index).
PulledWereEmitted(i) ==
    \A k \in 1..pos[i] :
        IF engine = "detailed"
        THEN \E n \in 1..Len(groups) : <<i - 1, iters[i][k]>> \in Range(groups[n])
        ELSE iters[i][k] \in Range(out)

\* C6: Exhaustion.  After either engine has returned None, every source is
\* at its end (the caller's iters[i].next() is None) and every element the
\* engine pulled from a source was emitted.
C6_Exhaustion ==
    (Precondition /\ Completed) =>
        \A i \in 1..Len(iters) :
            /\ ~IterHasNext(iters, pos, i - 1)
            /\ PulledWereEmitted(i)

\* test_merge has completed: iters[1].next().is_none().
C6_Witness ==
    /\ engine = "merge" /\ Completed /\ IsTestMerge("asc")
    /\ ~IterHasNext(iters, pos, 1)
    /\ pos[2] = 5

\* C7: Completion is idempotent.  Once a next() call of either engine has
\* returned None, every later call returns None and changes neither the
\* sources nor the heap (nor what was emitted).
C7_CompletionIdempotent ==
    [][Completed =>
        /\ ret' = <<>>
        /\ heap' = heap /\ pos' = pos /\ calls' = calls
        /\ out' = out /\ groups' = groups
        /\ nones' >= nones
    ]_vars

\* A second call after the one that first returned None.
C7_Witness == Completed /\ nones >= 2 /\ Len(Emitted) >= 2 /\ ret = <<>>

\* Each source reversed element-wise.
ReverseEach(its) == [i \in 1..Len(its) |-> Reverse(its[i])]

\* C8: Order-consistency with the comparator.  For ascending, duplicate-free
\* sources, MergeIterator on the reversed sources with the reversed
\* comparator returns the reverse of what it returns on the ascending
\* sources with the natural comparator, hence the same set of values; the
\* sources of test_merge reversed give 7, 6, 5, 4, 3, 2, 1.
C8_OrderConsistent ==
    (Precondition /\ engine = "merge" /\ Completed /\ cmp = "asc") =>
        /\ RunMerge(ReverseEach(iters), "desc") = Reverse(out)
        /\ Range(RunMerge(ReverseEach(iters), "desc")) = Range(out)
        /\ IsTestMerge("asc") =>
              RunMerge(ReverseEach(iters), "desc") = <<7, 6, 5, 4, 3, 2, 1>>

C8_Witness ==
    /\ engine = "merge" /\ Completed /\ cmp = "asc"
    /\ Len(iters) >= 2 /\ Len(out) >= 3
    /\ RunMerge(ReverseEach(iters), "desc") = Reverse(out)

\* The sources its without the i-th (1-based).
Omit(its, i) == [k \in 1..(Len(its) - 1) |-> IF k < i THEN its[k] ELSE its[k + 1]]

\* C9: Empty sources are inert.  A source that yields nothing at
\* construction has no heap entry and is never advanced again; the merge
\* output with an empty source among the sources is the output with that
\* source omitted; with no source, or only empty ones, the engine has an
\* empty heap from construction on and emits nothing.
C9_EmptyInert ==
    (Precondition /\ engine # "new") =>
        /\ \A i \in 1..Len(iters) : iters[i] = <<>> =>
              /\ calls[i] = 1
              /\ \A k \in 1..Len(heap) : heap[k][1] # i - 1
              /\ (engine = "merge" /\ Completed) =>
                    out = RunMerge(Omit(iters, i), cmp)
        /\ (\A i \in 1..Len(iters) : iters[i] = <<>>) =>
              heap = <<>> /\ Emitted = <<>>

\* A completed merge with an empty source before a non-empty one.
C9_Witness ==
    /\ engine = "merge" /\ Completed
    /\ Len(iters) >= 2 /\ iters[1] = <<>> /\ Len(out) >= 2

\* A first next() call on an engine built over no source returned None.
C9_WitnessNoSource == engine # "new" /\ iters = <<>> /\ nones = 1

\* C10: Termination.  With finite sources, a caller that keeps calling
\* next() on either engine gets None after at most as many value-yielding
\* calls as the sources have elements, and every call's loop ends.
C10_Termination ==
    /\ [](~hung /\ Len(Emitted) <= TotalLen(iters))
    /\ <>Completed

\* Disjoint sources: every element took a value-yielding call of its own.
C10_Witness ==
    /\ Completed /\ Len(iters) >= 2
    /\ Len(Emitted) = TotalLen(iters) /\ Len(Emitted) >= 3

\* Every heap entry's index is an index into iters.
ValidIndices == \A k \in 1..Len(heap) : heap[k][1] \in 0..(Len(iters) - 1)

\* C11: No failure on precondition violation.  For sources that are
\* unsorted or hold duplicates, every heap entry's source index stays a
\* valid index into the sources, every next() call of either engine returns
\* (its loop ends), and a caller that keeps calling gets None; only the order
\* or grouping of what is emitted may be wrong.
C11_TotalOnAnyInput ==
    /\ [](ValidIndices /\ ~hung /\ Len(Emitted) <= TotalLen(iters))
    /\ <>Completed

\* A completed run over sources that break the precondition, with an output
\* that is not sorted.
C11_Witness ==
    /\ Completed /\ ~Precondition
    /\ ~StrictlySorted(Emitted, cmp)
    /\ Len(iters) >= 2

\* A next() call returned a value in this step.
YieldingStep == engine # "new" /\ (out' # out \/ groups' # groups)

\* The 0-based indices of the sources whose heap entry holds the least
\* value of the heap under the comparator.
TiedForMinimum ==
    {heap[k][1] : k \in {j \in 1..Len(heap) :
        \A n \in 1..Len(heap) : Cmp(cmp, heap[j][2], heap[n][2]) # "Greater"}}

\* C12: On-demand pulling per step.  For sorted, duplicate-free sources, a
\* value-yielding next() call calls next() exactly once on each source whose
\* entry ties for the heap's minimum and on no other source: on exactly one
\* source when no other entry ties.
C12_PullsTiedOnly ==
    [][(Precondition /\ YieldingStep) =>
        /\ \A i \in 1..Len(iters) :
              calls'[i] = calls[i] + (IF i - 1 \in TiedForMinimum THEN 1 ELSE 0)
        /\ Cardinality(TiedForMinimum) = 1 =>
              Cardinality({i \in 1..Len(iters) : calls'[i] # calls[i]}) = 1
    ]_vars

\* test_merge after its third call, which pulled from all three sources.
C12_Witness ==
    /\ engine = "merge" /\ IsTestMerge("asc")
    /\ out = <<1, 2, 3>>
    /\ calls = <<4, 2, 3>>

\* Source i (1-based) has returned None to a next() call.
ReportedExhausted(i) == calls[i] > pos[i]

\* C13: Frontier entry invariant.  In every state between next() calls of
\* either engine, the heap holds at most one entry per source index, and
\* none for a source that has returned None to the engine.
C13_FrontierEntries ==
    /\ \A k, j \in 1..Len(heap) : heap[k][1] = heap[j][1] => k = j
    /\ \A k \in 1..Len(heap) :
          /\ heap[k][1] + 1 \in 1..Len(iters)
          /\ ~ReportedExhausted(heap[k][1] + 1)

\* A run in progress: one source is exhausted and two others hold entries.
C13_Witness ==
    /\ engine # "new" /\ Len(heap) = 2
    /\ \E i \in 1..Len(iters) : ReportedExhausted(i) /\ Len(iters[i]) >= 2

\* The pairs (i, first value of source i) of the sources from the n-th on
\* (1-based) that are not empty, in index order.
RECURSIVE FirstPairs(_)
FirstPairs(n) ==
    IF n > Len(iters) THEN <<>>
    ELSE (IF iters[n] = <<>> THEN <<>> ELSE <<<<n - 1, iters[n][1]>>>>)
         \o FirstPairs(n + 1)

\* C14: Construction pulls the first value from every source.  Constructing
\* either engine calls next() exactly once on each source, in index order,
\* before any next() of the engine; the heap then holds exactly the pairs
\* (i, first value of source i) of the sources that yielded a value, built
\* from the vector of these pairs in index order.
C14_ConstructionPulls ==
    [][(engine = "new" /\ engine' # "new") =>
        /\ calls = [i \in 1..Len(iters) |-> 0]
        /\ calls' = [i \in 1..Len(iters) |-> 1]
        /\ pos' = [i \in 1..Len(iters) |-> IF iters[i] = <<>> THEN 0 ELSE 1]
        /\ Range(heap') = Range(FirstPairs(1))
        /\ Len(heap') = Len(FirstPairs(1))
        /\ heap' = from_vec_cmp(FirstPairs(1), cmp)
        /\ out' = <<>> /\ groups' = <<>> /\ nones' = 0
    ]_vars

\* A detailed engine just constructed over sources of which one is empty.
C14_Witness ==
    /\ engine = "detailed" /\ nones = 0 /\ groups = <<>>
    /\ Len(iters) >= 2 /\ Len(heap) = Len(iters) - 1
    /\ heap = from_vec_cmp(FirstPairs(1), cmp)
    /\ \A i \in 1..Len(iters) : calls[i] = 1

\* The sources (1-based) that return None to the engine in this step.
NewlyExhausted ==
    {i \in 1..Len(iters) : /\ ~ReportedExhausted(i)
                           /\ calls'[i] > pos'[i]
                           /\ pos'[i] = Len(iters[i])}

\* C15: Frontier lifecycle.  After construction a next() call never adds a
\* heap entry; the heap shrinks by one entry for each source that returns
\* None in the call and not otherwise; and a call returns None exactly when
\* the heap is empty when it is made.
C15_FrontierLifecycle ==
    [][(engine # "new") =>
        /\ Len(heap') <= Len(heap)
        /\ Len(heap) - Len(heap') = Cardinality(NewlyExhausted)
        /\ (ret' = <<>>) <=> (heap = <<>>)
        /\ (nones' > nones) <=> (heap = <<>>)
    ]_vars

\* The first call made on an emptied heap, after two values were emitted.
C15_Witness ==
    /\ engine = "merge" /\ heap = <<>> /\ nones = 1 /\ ret = <<>>
    /\ Len(out) >= 2 /\ Len(iters) >= 2

\* The group returned by this step and its folded pairs, which are all its
\* pairs but the last, (i, res).
NewGroup == groups'[Len(groups')]
Folded == 1..(Len(NewGroup) - 1)

\* C16: The recorded value is the tied value.  Every pair the detailed
\* engine returns carries a value that ties with the emitted one.  On
\* sorted, duplicate-free sources a folded pair (j, v) is the heap entry of
\* source j from before the call, not the value pulled from source j in the
\* call; that value, if there is one, is the entry of source j after the
\* call, and source j has no entry if there is none.
C16_RecordsTiedValue ==
    [][(engine = "detailed" /\ groups' # groups) =>
        /\ \A k \in 1..Len(NewGroup) :
              Cmp(cmp, NewGroup[k][2], GroupValue(NewGroup)) = "Equal"
        /\ Precondition =>
              \A k \in Folded :
                 LET j == NewGroup[k][1] + 1
                 IN  /\ NewGroup[k] \in Range(heap)
                     /\ calls'[j] = calls[j] + 1
                     /\ IF pos[j] < Len(iters[j])
                        THEN /\ <<j - 1, iters[j][pos[j] + 1]>> \in Range(heap')
                             /\ NewGroup[k][2] # iters[j][pos[j] + 1]
                        ELSE \A n \in 1..Len(heap') : heap'[n][1] # j - 1
    ]_vars

\* The detailed engine has returned the group of 4 of the three ranges of
\* test_merge: the folded pairs hold 4 while 5 is on the heap for their
\* sources, and the source that ended has no entry.
C16_Witness ==
    /\ engine = "detailed" /\ IsTestMerge("asc") /\ Len(groups) = 4
    /\ Len(groups[4]) = 3
    /\ \A k \in 1..3 : groups[4][k][2] = 4
    /\ \E k \in 1..2 : <<groups[4][k][1], 5>> \in Range(heap)
    /\ Len(heap) = 2

\* The merge engine built over its and called k times: the engine and what
\* the calls returned, in order.
RECURSIVE MergeAfter(_, _, _)
MergeAfter(its, c, k) ==
    IF k = 0
    THEN [eng |-> merge_iters_by(its, Fresh(its), Fresh(its), c), rets |-> <<>>]
    ELSE LET p == MergeAfter(its, c, k - 1)
             r == MergeIterator_next(p.eng, its, c)
         IN  [eng |-> r.eng, rets |-> Append(p.rets, r.ret)]

\* The detailed engine built over its and called k times.
RECURSIVE DetailedAfter(_, _, _)
DetailedAfter(its, c, k) ==
    IF k = 0
    THEN [eng |-> merge_iters_detailed_by(its, Fresh(its), Fresh(its), c), rets |-> <<>>]
    ELSE LET p == DetailedAfter(its, c, k - 1)
             r == DetailedMergeIterator_next(p.eng, its, c)
         IN  [eng |-> r.eng, rets |-> Append(p.rets, r.ret)]

\* The next() calls made so far on the engine.
CallsMade == Len(Emitted) + nones

\* What n calls of the two engines returned agrees: None against None, a
\* value against a group whose last pair holds it.
SameReturns(ms, ds) ==
    /\ Len(ms) = Len(ds)
    /\ \A n \in 1..Len(ms) :
          IF ms[n] = <<>> THEN ds[n] = <<>>
          ELSE ds[n] # <<>> /\ ds[n][1] # <<>> /\ ms[n][1] = GroupValue(ds[n][1])

\* C17: The two engines run the same state machine.  Whichever engine runs,
\* the other one built over the same sources and comparator and called as
\* many times holds the same heap, has made the same calls on every source
\* and consumed as many of its elements, has returned None at the same
\* calls, and the k-th value of the merge engine is the value of the last
\* pair of the k-th group of the detailed engine.
C17_SameStateMachine ==
    (engine # "new" /\ ~hung) =>
        LET m == MergeAfter(iters, cmp, CallsMade)
            d == DetailedAfter(iters, cmp, CallsMade)
            mine == Engine(heap, pos, calls)
        IN  /\ m.eng = d.eng
            /\ SameReturns(m.rets, d.rets)
            /\ engine = "merge" =>
                  /\ mine = d.eng
                  /\ m.rets = [n \in 1..CallsMade |-> IF n <= Len(out) THEN <<out[n]>> ELSE <<>>]
            /\ engine = "detailed" =>
                  /\ mine = m.eng
                  /\ d.rets = [n \in 1..CallsMade |->
                                  IF n <= Len(groups) THEN <<groups[n]>> ELSE <<>>]

\* The merge engine has emitted 1, 2, 3, 4 of the three ranges of test_merge,
\* two of them from heaps with ties.
C17_Witness ==
    /\ engine = "merge" /\ IsTestMerge("asc") /\ out = <<1, 2, 3, 4>>
    /\ DetailedAfter(iters, cmp, 4).eng.heap = heap
    /\ Len(DetailedAfter(iters, cmp, 4).rets[4][1]) = 3

\* s is the beginning of t.
IsPrefix(s, t) == Len(s) <= Len(t) /\ \A k \in 1..Len(s) : s[k] = t[k]

\* The groups gs begin the groups hs, group by group as sets of pairs.
IsPrefixAsSets(gs, hs) ==
    /\ Len(gs) <= Len(hs)
    /\ \A k \in 1..Len(gs) : Range(gs[k]) = Range(hs[k]) /\ Len(gs[k]) = Len(hs[k])

\* C18: Tie-break independence.  On sorted, duplicate-free sources,
\* whichever entries of equal value the heap exposes first, the merge engine
\* emits the values that the code's own heap makes it emit, in the same
\* order and all of them when it completes, and the detailed engine emits
\* the same groups, each holding the same pairs.
C18_TieBreakIndependent ==
    /\ Precondition /\ ~hung
    /\ engine = "merge" =>
          /\ IsPrefix(out, RunMerge(iters, cmp))
          /\ Completed => out = RunMerge(iters, cmp)
    /\ engine = "detailed" =>
          /\ IsPrefixAsSets(groups, RunDetailed(iters, cmp))
          /\ Completed => Len(groups) = Len(RunDetailed(iters, cmp))

\* A completed detailed run in which a group lists its pairs in another
\* order than the code's own heap gives.
C18_Witness ==
    /\ engine = "detailed" /\ Completed
    /\ \E k \in 1..Len(groups) :
          /\ groups[k] # RunDetailed(iters, cmp)[k]
          /\ Range(groups[k]) = Range(RunDetailed(iters, cmp)[k])

\* The number of elements of source i (1-based) that were emitted.
EmittedOf(i) == Cardinality({k \in 1..Len(iters[i]) : iters[i][k] \in Range(Emitted)})

\* Source i (1-based) has an entry on the heap.
HasEntry(i) == \E k \in 1..Len(heap) : heap[k][1] = i - 1

\* C19: One-element look-ahead.  On sorted, duplicate-free sources, between
\* calls: no source has had next() called before construction; afterwards a
\* source has had one call more than it has emitted elements, which got it
\* either its heap entry or a None; what it emitted are its first elements,
\* and its entry, if any, is the element after them.
C19_OneAhead ==
    \A i \in 1..Len(iters) :
        /\ \A k \in 1..Len(iters[i]) :
              iters[i][k] \in Range(Emitted) <=> k <= EmittedOf(i)
        /\ calls[i] <= EmittedOf(i) + 1
        /\ IF engine = "new"
           THEN calls[i] = 0 /\ pos[i] = 0 /\ ~HasEntry(i)
           ELSE /\ calls[i] = EmittedOf(i) + 1
                /\ IF HasEntry(i)
                   THEN /\ pos[i] = EmittedOf(i) + 1
                        /\ <<i - 1, iters[i][EmittedOf(i) + 1]>> \in Range(heap)
                   ELSE /\ pos[i] = EmittedOf(i)
                        /\ EmittedOf(i) = Len(iters[i])
                        /\ ReportedExhausted(i)

\* The detailed engine after two groups of test_merge_detailed, not called
\* again: [1, 2] has emitted both elements and returned None, [2, 3] has
\* emitted 2 and has 3 on the heap.
C19_Witness ==
    /\ engine = "detailed" /\ IsTestDetailed("asc") /\ Len(groups) = 2 /\ nones = 0
    /\ calls = <<3, 2>> /\ pos = <<2, 2>> /\ heap = <<<<1, 3>>>>

\* C20: No tie survives a step.  On sorted, duplicate-free sources, after
\* a call of either engine that returned a value, every value on the heap
\* comes strictly after the value returned, and so after every value
\* emitted so far.
C20_NoTieSurvives ==
    /\ [][(engine # "new" /\ ret' # <<>>) =>
            \A k \in 1..Len(heap') :
                Cmp(cmp, Emitted'[Len(Emitted')], heap'[k][2]) = "Less"]_vars
    /\ [](\A n \in 1..Len(Emitted) : \A k \in 1..Len(heap) :
              Cmp(cmp, Emitted[n], heap[k][2]) = "Less")

\* The merge engine has returned 3 of the three ranges of test_merge, which
\* all three held; the 4 of each is on the heap.
C20_Witness ==
    /\ engine = "merge" /\ IsTestMerge("asc") /\ ret = <<3>> /\ Len(heap) = 3
    /\ {heap[k][2] : k \in 1..Len(heap)} = {4}

====
